---- MODULE Spec2Model ----
(***************************************************************************)
(* Depth-determination core of seiscomp/seismology/autoloc:                *)
(*   - RegionDepthLookup  (regiondepth.h / regiondepth.cpp)                *)
(*   - DepthPhaseAnalyzer (depthphases.h / depthphases.cpp)                *)
(* Depths are kilometres, modelled as integers.  Attribute values of a     *)
(* region feature are strings, modelled as sequences of one-character      *)
(* strings so that the numeric conversion is computed, not assumed.        *)
(***************************************************************************)
EXTENDS Integers, Sequences, FiniteSets, TLC

VARIABLES
    features,        \* Geo::GeoFeatureSetSingleton::getInstance().features()
    _config,         \* RegionDepthLookup::_config
    _regions,        \* RegionDepthLookup::_regions (indices into features)
    _initialized,    \* RegionDepthLookup::_initialized
    lastOp,          \* the public operation that ran last on the lookup
    initRet,         \* what the last init() returned
    result,          \* what the last getConstraints() returned
    query,           \* the (lat, lon) of the last getConstraints()
    pre,             \* the lookup as it was when the last init() was entered
    configArg,       \* the argument of the last setConfig()
    sinceSetConfig,  \* TRUE from a setConfig() until the next init()
    wasInitialized,  \* _initialized as it was when that setConfig() was entered
    _ttt,            \* DepthPhaseAnalyzer::_ttt
    analyzerOp,      \* the operation that ran last on the analyzer
    analyzerArgs,    \* its arguments
    analyzerRet,     \* what it returned
    _depthPhaseConfig, \* DepthPhaseAnalyzer::_config
    observations,    \* the observation vector a caller holds
    trialDepths,     \* the depths the last invertForDepth() computed a misfit at
    oracleCalls,     \* the calls the last operation made to _ttt->compute()
    analyzerPre      \* the analyzer as it was when the last operation was entered

lookupVars == <<features, _config, _regions, _initialized, lastOp, initRet,
                result, query, pre, configArg, sinceSetConfig,
                wasInitialized>>

inversionVars == <<_depthPhaseConfig, observations, trialDepths>>

analyzerVars == <<_ttt, analyzerOp, analyzerArgs, analyzerRet, inversionVars,
                  oracleCalls, analyzerPre>>

vars == <<lookupVars, analyzerVars>>

(***************************************************************************)
(* Bounds of the model.                                                    *)
(***************************************************************************)
\* longest feature store drawn in Init
MaxFeatures == 2
\* longest cfg.regions list passed to setConfig
MaxRegions == 2

(***************************************************************************)
(* Inputs.                                                                 *)
(***************************************************************************)
\* (lat, lon) pairs that are queried and that polygons are made of
Points == {<<37, -97>>, <<37, 0>>, <<0, 0>>}

RegionNameSet == {"A", "B", "C"}

\* attribute maps: a function from the keys present to the value strings
AttrBoth    == [defaultDepth |-> <<"1", "0">>, maxDepth |-> <<"3", "5">>]
AttrMaxOnly == [maxDepth |-> <<"7", "0", "0">>]
AttrDefOnly == [defaultDepth |-> <<"2", "0">>]
AttrBadDef  == [defaultDepth |-> <<"x">>, maxDepth |-> <<"3", "5">>]
AttrBadMax  == [defaultDepth |-> <<"2", "0">>, maxDepth |-> <<"d", "e", "e", "p">>]

\* the features a store is made of: name(), the points contains() accepts,
\* attributes()
FeaturePool ==
    { [name |-> "A", area |-> {<<37, -97>>, <<37, 0>>}, attrs |-> AttrBoth],
      [name |-> "B", area |-> {<<37, 0>>, <<0, 0>>},    attrs |-> AttrMaxOnly],
      [name |-> "A", area |-> {<<0, 0>>},               attrs |-> AttrBadMax],
      [name |-> "C", area |-> {<<37, 0>>},              attrs |-> AttrDefOnly],
      [name |-> "B", area |-> {<<37, -97>>},            attrs |-> AttrBadDef] }

SeqsUpTo(S, n) == UNION { [1..k -> S] : k \in 0..n }

\* a store holds each of its features once; two features may share a name
FeatureStores ==
    { s \in SeqsUpTo(FeaturePool, MaxFeatures) :
        \A i, j \in 1..Len(s) : i # j => s[i] # s[j] }

\* (globalDefaultDepth, globalMaxDepth) pairs; the first is the struct's default
GlobalDepths == {<<10, 700>>, <<15, 600>>}

RegionDepthConfigs ==
    { [enabled |-> e, regions |-> r,
       globalDefaultDepth |-> g[1], globalMaxDepth |-> g[2]] :
         e \in BOOLEAN, r \in SeqsUpTo(RegionNameSet, MaxRegions), g \in GlobalDepths }

\* RegionDepthConfig's member initialisers
DefaultRegionDepthConfig ==
    [enabled |-> FALSE, regions |-> <<>>,
     globalDefaultDepth |-> 10, globalMaxDepth |-> 700]

\* RegionDepthConstraints' member initialisers
DefaultRegionDepthConstraints ==
    [regionName |-> "", defaultDepth |-> 10, maxDepth |-> 700,
     hasDefaultDepth |-> FALSE, hasMaxDepth |-> FALSE, matched |-> FALSE]

NoPre == [op |-> "none", regions |-> <<>>, initialized |-> FALSE, initRet |-> FALSE]

NoQuery == <<>>

\* a pointer: null, or to a string / to an oracle of the registry
Nullptr == [null |-> TRUE]

CStr(chars) == [null |-> FALSE, chars |-> chars]

Oracle(type, model) == [null |-> FALSE, type |-> type, model |-> model]

\* phase names passed to the catalog
PhaseNames ==
    {"pP", "sP", "pwP", "pS", "sS", "pPKP", "sPKP",
     "P", "S", "PKP", "unknown", "", "pp", "PP", "pPS", "PKPdf"}

\* travel-time table types and models asked of the registry
TableTypes == {"libtau", "LOCSAT", "notype"}

TableModels == {"iasp91", "ak135", "nomodel"}

RegisteredTypes == {"libtau", "LOCSAT"}

StandardModels == {"iasp91", "ak135"}

\* oracles a caller hands to setTravelTimeTable(ttt), and no oracle
OracleHandles ==
    {Nullptr} \cup {Oracle(t, m) : t \in RegisteredTypes, m \in StandardModels}

\* depths of the analyzer count half kilometres, the finest step of the search
HalfKm == 1

Km(x) == 2 * x * HalfKm

\* DepthPhaseConfig{}: the fields the modelled operations read, distances in
\* degrees, residuals in seconds, the weight in halves (1.5 is 3)
DefaultDepthPhaseConfig ==
    [phases |-> <<"pP", "sP", "pwP">>, minDepth |-> Km(15), maxDepth |-> Km(700),
     minDistance |-> 30, maxDistance |-> 90, maxResidual |-> 3,
     minPhaseCount |-> 3, weight |-> 3]

DepthPhaseConfigOf(minKm, maxKm, count) ==
    [DefaultDepthPhaseConfig EXCEPT !.minDepth = Km(minKm), !.maxDepth = Km(maxKm),
                                    !.minPhaseCount = count]

\* configurations handed to the inversion: the defaults, a wide range, a range
\* of one depth, an inverted range, ranges that start or lie below zero
InversionConfigs ==
    {DefaultDepthPhaseConfig,
     DepthPhaseConfigOf(0, 100, 3), DepthPhaseConfigOf(0, 100, 1),
     DepthPhaseConfigOf(40, 40, 1), DepthPhaseConfigOf(40, 40, 0),
     DepthPhaseConfigOf(50, 20, 1), DepthPhaseConfigOf(-5, 30, 1),
     DepthPhaseConfigOf(-5, -5, 1)}

\* a DepthPhaseObservation: the fields the inversion reads, times in seconds
Observation(valid, w, obs, theo) ==
    [isValid |-> valid, weight |-> w, timeDifferenceObs |-> obs,
     timeDifferenceTheo |-> theo]

ObservationPool ==
    {Observation(TRUE, 1, 80, 80), Observation(TRUE, 1, 82, 80),
     Observation(TRUE, 1, 78, 80), Observation(TRUE, 2, 80, 80),
     Observation(FALSE, 1, 90, 80), Observation(FALSE, 1, 70, 80),
     Observation(TRUE, -1, 80, 80), Observation(TRUE, -1, 82, 80),
     Observation(TRUE, 0, 82, 80)}

MaxObservations == 3

ObservationLists == SeqsUpTo(ObservationPool, MaxObservations)

\* what a call of _ttt->compute() gives: a TravelTime with some time, a list
\* of all phases, no list, or an exception
Time(t) == [kind |-> "time", time |-> t, list |-> <<>>]

List(ttList) == [kind |-> "list", time |-> 0, list |-> ttList]

NoList == [kind |-> "null", time |-> 0, list |-> <<>>]

Throws == [kind |-> "throws", time |-> 0, list |-> <<>>]

TravelTime(phase, time) == [phase |-> phase, time |-> time]

\* a call of the oracle: the phase asked for ("" for all phases), what came
\* back, and whether a list that came back has been deleted
Call(phase, outcome, deleted) ==
    [phase |-> phase, outcome |-> outcome, deleted |-> deleted]

PhaseOutcomes == {Throws, Time(-1), Time(0), Time(5), Time(12)}

AllPhaseOutcomes ==
    {Throws, NoList, List(<<>>),
     List(<<TravelTime("P", 5), TravelTime("pP", 7), TravelTime("sP", 9)>>),
     List(<<TravelTime("pP", 7), TravelTime("P", 5), TravelTime("pP", 8),
            TravelTime("sS", 12)>>)}

\* the phases argument of computeDepthPhaseTimes
RequestedPhases == {<<>>, <<"P">>, <<"sS", "pP">>}

\* the depthPhase argument of computeDepthPhaseTimeDifference
DifferencePhases == {"pP", "sS", "sPKP", "P", "unknown"}

\* configurations handed to the analyzer's setConfig
AnalyzerConfigs ==
    {DefaultDepthPhaseConfig,
     [DefaultDepthPhaseConfig EXCEPT !.phases = <<"sS">>],
     [DefaultDepthPhaseConfig EXCEPT !.phases = <<>>]}

\* observation vectors handed to invertForDepth between the other operations
HeldObservationLists ==
    {<<>>, <<Observation(TRUE, 1, 80, 80)>>,
     <<Observation(TRUE, 1, 80, 80), Observation(TRUE, 1, 82, 80),
       Observation(TRUE, 1, 78, 80)>>}

\* the analyzer's oracle when an inversion is asked for
InversionOracles == {Nullptr, Oracle("libtau", "iasp91")}

\* an arrival handed to analyze: the station, the phase name, the observed
\* arrival epoch and the station's epicentral distance; the origin time is 0
Arrival(station, phase, time, distance) ==
    [station |-> station, phase |-> phase, time |-> time, distance |-> distance]

Stations == {"S1", "S2", "S3"}

\* arrival lists: none; two pairs within the residual limit; three pairs, one
\* 10 s off; three pairs within the limit, one of them at the limit; a
\* station too near, a depth phase the default configuration leaves out and
\* a depth phase without its reference; reference after the depth phase
ArrivalLists ==
    {<<>>,
     <<Arrival("S1", "P", 100, 60), Arrival("S1", "pP", 161, 60),
       Arrival("S2", "P", 200, 70), Arrival("S2", "pP", 259, 70)>>,
     <<Arrival("S1", "P", 100, 60), Arrival("S1", "pP", 150, 60),
       Arrival("S2", "P", 200, 70), Arrival("S2", "pP", 259, 70),
       Arrival("S3", "P", 300, 80), Arrival("S3", "pP", 360, 80)>>,
     <<Arrival("S1", "P", 100, 60), Arrival("S1", "pP", 161, 60),
       Arrival("S2", "P", 200, 70), Arrival("S2", "pP", 259, 70),
       Arrival("S3", "P", 300, 80), Arrival("S3", "pP", 363, 80)>>,
     <<Arrival("S1", "P", 100, 20), Arrival("S1", "pP", 160, 20),
       Arrival("S2", "S", 400, 70), Arrival("S2", "sS", 481, 70),
       Arrival("S3", "pP", 360, 80)>>,
     <<Arrival("S1", "sS", 482, 60), Arrival("S2", "pP", 284, 70),
       Arrival("S1", "S", 400, 60), Arrival("S2", "P", 200, 70)>>}

\* the source depths handed to analyze
SourceDepths == {Km(33), Km(100), Km(5)}

\* what the oracle gives for a phase at a station during analyze
TheoryTables ==
    {[st \in Stations |->
         [P |-> Time(100), pP |-> Time(160), S |-> Time(400), sS |-> Time(480)]],
     [st \in Stations |->
         IF st = "S2"
         THEN [P |-> Time(100), pP |-> Throws, S |-> Time(400), sS |-> Time(-1)]
         ELSE [P |-> Time(100), pP |-> Time(160), S |-> Time(400),
               sS |-> Time(480)]],
     [st \in Stations |->
         [P |-> Time(100), pP |-> Time(162), S |-> Time(400), sS |-> Time(0)]]}

\* configurations of the analyzer when analyze is asked for
AnalysisConfigs ==
    {DefaultDepthPhaseConfig,
     [DefaultDepthPhaseConfig EXCEPT !.minPhaseCount = 2],
     [DefaultDepthPhaseConfig EXCEPT !.phases = <<"sS", "pP">>,
                                     !.maxResidual = 1, !.weight = 2],
     [DefaultDepthPhaseConfig EXCEPT !.minPhaseCount = 0, !.minDepth = Km(40)]}

(***************************************************************************)
(* Collaborators outside the lookup: the feature store's features and the  *)
(* string conversion.                                                      *)
(***************************************************************************)
\* Geo::GeoFeature::contains(location)
contains(feature, location) == location \in feature.area

Digits == {"0", "1", "2", "3", "4", "5", "6", "7", "8", "9"}

DigitValue(c) ==
    CASE c = "0" -> 0 [] c = "1" -> 1 [] c = "2" -> 2 [] c = "3" -> 3
      [] c = "4" -> 4 [] c = "5" -> 5 [] c = "6" -> 6 [] c = "7" -> 7
      [] c = "8" -> 8 [] c = "9" -> 9

RECURSIVE DecimalValue(_)
DecimalValue(s) ==
    IF s = <<>> THEN 0
    ELSE 10 * DecimalValue(SubSeq(s, 1, Len(s) - 1)) + DigitValue(s[Len(s)])

\* Core::fromString(double &value, const std::string &): the conversion
\* succeeds on a non-empty string of decimal digits; `value` means something
\* only when it does (0 stands for what is left in it otherwise)
fromString(str) ==
    IF str # <<>> /\ \A i \in 1..Len(str) : str[i] \in Digits
    THEN [ok |-> TRUE, value |-> DecimalValue(str)]
    ELSE [ok |-> FALSE, value |-> 0]

(***************************************************************************)
(* RegionDepthLookup                                                       *)
(***************************************************************************)
\* parseDepthAttribute with the result of the conversion ignored
parseDepthAttributeUnchecked(feature, attrName) ==
    IF attrName \notin DOMAIN feature.attrs
    THEN [ok |-> FALSE, value |-> 0]
    ELSE [ok |-> TRUE, value |-> fromString(feature.attrs[attrName]).value]

\* parseDepthAttribute(feature, attrName, value): the bool it returns and
\* the out-parameter
parseDepthAttribute(feature, attrName) ==
    IF attrName \notin DOMAIN feature.attrs
    THEN [ok |-> FALSE, value |-> 0]
    ELSE fromString(feature.attrs[attrName])

\* the inner loop of init(): the index of the first feature of the store
\* called regionName, scanning from i; 0 when there is none (found = false)
RECURSIVE findFeature(_, _, _)
findFeature(store, regionName, i) ==
    IF i > Len(store) THEN 0
    ELSE IF store[i].name = regionName THEN i
    ELSE findFeature(store, regionName, i + 1)

\* loadRegions putting each region found in front of those loaded before
RECURSIVE loadRegionsFront(_, _, _, _)
loadRegionsFront(store, names, k, loaded) ==
    IF k > Len(names) THEN loaded
    ELSE LET f == findFeature(store, names[k], 1)
         IN  loadRegionsFront(store, names, k + 1,
                              IF f # 0 THEN <<f>> \o loaded ELSE loaded)

\* the outer loop of init(): _regions after the names k.. of the list have
\* been looked up, starting from the regions loaded so far
RECURSIVE loadRegions(_, _, _, _)
loadRegions(store, names, k, loaded) ==
    IF k > Len(names) THEN loaded
    ELSE LET f == findFeature(store, names[k], 1)
         IN  loadRegions(store, names, k + 1,
                         IF f # 0 THEN Append(loaded, f) ELSE loaded)

\* init() without the clear() it starts with
initRegionsNoClear(store, config, held) ==
    IF ~config.enabled THEN held
    ELSE IF config.regions = <<>> THEN held
    ELSE loadRegions(store, config.regions, 1, held)

\* init() without the test of config.enabled
initRegionsNoEnabledTest(store, config, held) ==
    IF config.regions = <<>> THEN <<>>
    ELSE loadRegions(store, config.regions, 1, <<>>)

\* _regions as init() leaves it for a lookup that held `held` on entry
initRegions(store, config, held) ==
    LET cleared == <<>>
    IN  IF ~config.enabled THEN cleared
        ELSE IF config.regions = <<>> THEN cleared
        ELSE loadRegions(store, config.regions, 1, cleared)

\* the result of getConstraints updated from a region that matched
applyRegion(region, res) ==
    LET dd == parseDepthAttribute(region, "defaultDepth")
        md == parseDepthAttribute(region, "maxDepth")
        r1 == [res EXCEPT !.regionName = region.name, !.matched = TRUE]
        r2 == IF dd.ok
              THEN [r1 EXCEPT !.defaultDepth = dd.value, !.hasDefaultDepth = TRUE]
              ELSE r1
    IN  IF md.ok
        THEN [r2 EXCEPT !.maxDepth = md.value, !.hasMaxDepth = TRUE]
        ELSE r2

\* the loop without the return in its body: every matching region is applied
RECURSIVE scanRegionsNoReturn(_, _, _, _, _)
scanRegionsNoReturn(store, regions, i, location, res) ==
    IF i > Len(regions) THEN res
    ELSE scanRegionsNoReturn(store, regions, i + 1, location,
                             IF contains(store[regions[i]], location)
                             THEN applyRegion(store[regions[i]], res)
                             ELSE res)

\* the loop with maxDepth read only when defaultDepth was
RECURSIVE scanRegionsNested(_, _, _, _, _)
scanRegionsNested(store, regions, i, location, res) ==
    IF i > Len(regions) THEN res
    ELSE LET region == store[regions[i]]
             full == applyRegion(region, res)
         IN  IF contains(region, location)
             THEN IF full.hasDefaultDepth THEN full
                  ELSE [res EXCEPT !.regionName = region.name, !.matched = TRUE]
             ELSE scanRegionsNested(store, regions, i + 1, location, res)

\* the loop without the contains() test
RECURSIVE scanRegionsNoContains(_, _, _, _, _)
scanRegionsNoContains(store, regions, i, location, res) ==
    IF i > Len(regions) THEN res
    ELSE applyRegion(store[regions[i]], res)

\* the loop of getConstraints over the retained regions i.., on the result
\* initialised from the global defaults
RECURSIVE scanRegions(_, _, _, _, _)
scanRegions(store, regions, i, location, res) ==
    IF i > Len(regions) THEN res
    ELSE IF contains(store[regions[i]], location)
         THEN applyRegion(store[regions[i]], res)
         ELSE scanRegions(store, regions, i + 1, location, res)

\* getConstraints starting from the struct's defaults, not the configured ones
getConstraintsOfStructDefaults(store, config, regions, lat, lon) ==
    IF ~config.enabled \/ regions = <<>> THEN DefaultRegionDepthConstraints
    ELSE scanRegions(store, regions, 1, <<lat, lon>>, DefaultRegionDepthConstraints)

\* getConstraints(lat, lon) of a lookup with this configuration and these
\* retained regions
getConstraintsOf(store, config, regions, lat, lon) ==
    LET res == [DefaultRegionDepthConstraints EXCEPT
                   !.defaultDepth = config.globalDefaultDepth,
                   !.maxDepth = config.globalMaxDepth,
                   !.matched = FALSE]
    IN  IF ~config.enabled \/ regions = <<>> THEN res
        ELSE scanRegions(store, regions, 1, <<lat, lon>>, res)

isInitialized == _initialized

regionCount == Len(_regions)

regionNames == [i \in 1..Len(_regions) |-> features[_regions[i]].name]

(***************************************************************************)
(* Depth-phase catalog and DepthPhaseAnalyzer                              *)
(***************************************************************************)
\* depthPhaseTable[], closed by the {nullptr, nullptr} entry
depthPhaseTable ==
    << [depthPhase |-> CStr("pP"),   referencePhase |-> CStr("P")],
       [depthPhase |-> CStr("sP"),   referencePhase |-> CStr("P")],
       [depthPhase |-> CStr("pwP"),  referencePhase |-> CStr("P")],
       [depthPhase |-> CStr("pS"),   referencePhase |-> CStr("S")],
       [depthPhase |-> CStr("sS"),   referencePhase |-> CStr("S")],
       [depthPhase |-> CStr("pPKP"), referencePhase |-> CStr("PKP")],
       [depthPhase |-> CStr("sPKP"), referencePhase |-> CStr("PKP")],
       [depthPhase |-> Nullptr,      referencePhase |-> Nullptr] >>

\* the loop of isDepthPhase with info at entry i
RECURSIVE isDepthPhaseFrom(_, _)
isDepthPhaseFrom(phase, i) ==
    IF depthPhaseTable[i].depthPhase.null THEN FALSE
    ELSE IF phase = depthPhaseTable[i].depthPhase.chars THEN TRUE
    ELSE isDepthPhaseFrom(phase, i + 1)

\* isDepthPhase comparing with both columns of the table
isDepthPhaseEitherColumn(phase) ==
    \E i \in 1..Len(depthPhaseTable) :
        /\ ~depthPhaseTable[i].depthPhase.null
        /\ \/ phase = depthPhaseTable[i].depthPhase.chars
           \/ phase = depthPhaseTable[i].referencePhase.chars

isDepthPhase(phase) == isDepthPhaseFrom(phase, 1)

\* the loop of getReferencePhase with info at entry i
RECURSIVE getReferencePhaseFrom(_, _)
getReferencePhaseFrom(depthPhase, i) ==
    IF depthPhaseTable[i].depthPhase.null THEN "P"
    ELSE IF depthPhase = depthPhaseTable[i].depthPhase.chars
         THEN depthPhaseTable[i].referencePhase.chars
    ELSE getReferencePhaseFrom(depthPhase, i + 1)

\* getReferencePhase without the table: the fallback for every name
getReferencePhaseAlwaysP(depthPhase) == "P"

\* getReferencePhase returning the first column of the entry it finds
getReferencePhaseFirstColumn(depthPhase) ==
    IF \E i \in 1..(Len(depthPhaseTable) - 1) :
           depthPhase = depthPhaseTable[i].depthPhase.chars
    THEN depthPhase
    ELSE "P"

getReferencePhase(depthPhase) == getReferencePhaseFrom(depthPhase, 1)

\* TravelTimeTableInterface::Create(type): an oracle of a registered type,
\* no model selected yet
Create(type) ==
    IF type \in RegisteredTypes THEN Oracle(type, "") ELSE Nullptr

\* TravelTimeTableInterface::setModel(model): whether the model is known
setModelOk(model) == model \in StandardModels

(***************************************************************************)
(* The forward computations: what they return and the calls they make to   *)
(* the oracle, given what the oracle answers.                              *)
(***************************************************************************)
\* the filter loop of computeDepthPhaseTimes run over the target phases
RECURSIVE filterByTargetOrder(_, _, _)
filterByTargetOrder(ttList, targetPhases, k) ==
    IF k > Len(targetPhases) THEN <<>>
    ELSE SelectSeq(ttList, LAMBDA tt : tt.phase = targetPhases[k])
            \o filterByTargetOrder(ttList, targetPhases, k + 1)

\* the inner loop: whether targetPhases holds tt.phase, from position k on
RECURSIVE include(_, _, _)
include(tt, targetPhases, k) ==
    IF k > Len(targetPhases) THEN FALSE
    ELSE IF tt.phase = targetPhases[k] THEN TRUE
    ELSE include(tt, targetPhases, k + 1)

\* the outer loop over *ttList, from entry i on
RECURSIVE filterLoop(_, _, _)
filterLoop(ttList, targetPhases, i) ==
    IF i > Len(ttList) THEN <<>>
    ELSE (IF include(ttList[i], targetPhases, 1) THEN <<ttList[i]>> ELSE <<>>)
            \o filterLoop(ttList, targetPhases, i + 1)

\* filterTravelTimes that collects phase by phase
filterTravelTimesByTarget(ttList, targetPhases) ==
    filterByTargetOrder(ttList, targetPhases, 1)

filterTravelTimes(ttList, targetPhases) == filterLoop(ttList, targetPhases, 1)

\* computeDepthPhaseTimes that asks the oracle without testing _ttt
computeDepthPhaseTimesUntested(ttt, config, phases, outcome) ==
    IF outcome.kind = "list"
    THEN [thrown |-> FALSE,
          result |-> filterTravelTimes(outcome.list,
                         IF phases = <<>> THEN config.phases ELSE phases),
          calls |-> <<Call("", outcome, TRUE)>>]
    ELSE [thrown |-> outcome.kind = "throws", result |-> <<>>,
          calls |-> <<Call("", outcome, FALSE)>>]

\* computeDepthPhaseTimes(lat, lon, depth, stationLat, stationLon,
\* stationElev, phases); an exception of the oracle is not caught
computeDepthPhaseTimesOf(ttt, config, phases, outcome) ==
    IF ttt.null THEN [thrown |-> FALSE, result |-> <<>>, calls |-> <<>>]
    ELSE IF outcome.kind = "throws"
    THEN [thrown |-> TRUE, result |-> <<>>,
          calls |-> <<Call("", outcome, FALSE)>>]
    ELSE IF outcome.kind = "null"
    THEN [thrown |-> FALSE, result |-> <<>>,
          calls |-> <<Call("", outcome, FALSE)>>]
    ELSE LET targetPhases == IF phases = <<>> THEN config.phases ELSE phases
         IN  [thrown |-> FALSE,
              result |-> filterTravelTimes(outcome.list, targetPhases),
              calls |-> <<Call("", outcome, TRUE)>>]

\* computeDepthPhaseTimeDifference without the test of the two times
computeDepthPhaseTimeDifferenceUntested(ttt, depthPhase, ttDepth, ttRef) ==
    IF ttt.null THEN [ret |-> -1, calls |-> <<>>]
    ELSE IF ttDepth.kind = "throws"
    THEN [ret |-> -1, calls |-> <<Call(depthPhase, ttDepth, FALSE)>>]
    ELSE [ret |-> IF ttRef.kind = "throws" THEN -1
                  ELSE ttDepth.time - ttRef.time,
          calls |-> <<Call(depthPhase, ttDepth, FALSE),
                      Call(getReferencePhase(depthPhase), ttRef, FALSE)>>]

\* computeDepthPhaseTimeDifference(depthPhase, lat, lon, depth, stationLat,
\* stationLon, stationElev): ttDepth and ttRef are the oracle's answers
computeDepthPhaseTimeDifferenceOf(ttt, depthPhase, ttDepth, ttRef) ==
    IF ttt.null THEN [ret |-> -1, calls |-> <<>>]
    ELSE LET refPhase == getReferencePhase(depthPhase)
         IN  IF ttDepth.kind = "throws"
             THEN [ret |-> -1, calls |-> <<Call(depthPhase, ttDepth, FALSE)>>]
             ELSE IF ttRef.kind = "throws"
             THEN [ret |-> -1, calls |-> <<Call(depthPhase, ttDepth, FALSE),
                                           Call(refPhase, ttRef, FALSE)>>]
             ELSE [ret |-> IF ttDepth.time > 0 /\ ttRef.time > 0
                           THEN ttDepth.time - ttRef.time
                           ELSE -1,
                   calls |-> <<Call(depthPhase, ttDepth, FALSE),
                               Call(refPhase, ttRef, FALSE)>>]

(***************************************************************************)
(* The depth inversion.  A misfit is a double: the largest double, not a   *)
(* number, or the root of num / den with num >= 0 and den > 0; two roots   *)
(* are compared by their radicands.                                        *)
(***************************************************************************)
\* std::numeric_limits<double>::max()
DblMax == [kind |-> "max", num |-> 0, den |-> 1]

NotANumber == [kind |-> "nan", num |-> 0, den |-> 1]

\* std::sqrt(num / den), den # 0: not a number for a negative quotient
sqrtOfQuotient(num, den) ==
    IF (num < 0 /\ den > 0) \/ (num > 0 /\ den < 0)
    THEN NotANumber
    ELSE [kind |-> "num", num |-> IF num < 0 THEN -num ELSE num,
                          den |-> IF den < 0 THEN -den ELSE den]

\* a < b on doubles: false as soon as one side is not a number
lessThan(a, b) ==
    IF a.kind = "nan" \/ b.kind = "nan" THEN FALSE
    ELSE IF a.kind = "max" THEN FALSE
    ELSE IF b.kind = "max" THEN TRUE
    ELSE a.num * b.den < b.num * a.den

\* std::max and std::min
stdMax(a, b) == IF a < b THEN b ELSE a

stdMin(a, b) == IF b < a THEN b ELSE a

\* the loop of calculateMisfit without its test of isValid
RECURSIVE misfitSumsOfAll(_, _, _)
misfitSumsOfAll(obsList, i, sums) ==
    IF i > Len(obsList) THEN sums
    ELSE LET residual == obsList[i].timeDifferenceObs - obsList[i].timeDifferenceTheo
             weight == obsList[i].weight
         IN  misfitSumsOfAll(obsList, i + 1,
                 [sumSquaredResiduals |-> sums.sumSquaredResiduals
                                            + weight * residual * residual,
                  sumWeights |-> sums.sumWeights + weight,
                  count |-> sums.count + 1])

\* the loop of calculateMisfit from observation i on
RECURSIVE misfitSums(_, _, _)
misfitSums(obsList, i, sums) ==
    IF i > Len(obsList) THEN sums
    ELSE IF ~obsList[i].isValid THEN misfitSums(obsList, i + 1, sums)
    ELSE LET residual == obsList[i].timeDifferenceObs - obsList[i].timeDifferenceTheo
             weight == obsList[i].weight
         IN  misfitSums(obsList, i + 1,
                 [sumSquaredResiduals |-> sums.sumSquaredResiduals
                                            + weight * residual * residual,
                  sumWeights |-> sums.sumWeights + weight,
                  count |-> sums.count + 1])

\* calculateMisfit with the theoretical difference of the oracle at the
\* trial depth, 2 s for each kilometre, in place of the stored one
calculateMisfitAtDepth(depth, obsList) ==
    LET atDepth == [i \in 1..Len(obsList) |->
                       [obsList[i] EXCEPT !.timeDifferenceTheo
                                              = (2 * depth) \div Km(1)]]
        sums == misfitSums(atDepth, 1,
                    [sumSquaredResiduals |-> 0, sumWeights |-> 0, count |-> 0])
    IN  IF sums.count = 0 \/ sums.sumWeights = 0
        THEN DblMax
        ELSE sqrtOfQuotient(sums.sumSquaredResiduals, sums.sumWeights)

\* calculateMisfit that finds no observation to use
calculateMisfitNothingValid(depth, obsList) == DblMax

\* calculateMisfit(lat, lon, depth, observations): the trial depth is not read
calculateMisfit(depth, obsList) ==
    LET sums == misfitSums(obsList, 1,
                    [sumSquaredResiduals |-> 0, sumWeights |-> 0, count |-> 0])
    IN  IF sums.count = 0 \/ sums.sumWeights = 0
        THEN DblMax
        ELSE sqrtOfQuotient(sums.sumSquaredResiduals, sums.sumWeights)

\* the passes first..last of the loop of gridSearchDepth with a pass taking
\* over as soon as its misfit is not greater than the best so far
RECURSIVE gridSearchLoopLastWins(_, _, _, _, _)
gridSearchLoopLastWins(obsList, minDepth, step, first, last) ==
    IF first > last THEN [bestDepth |-> Km(-1), bestMisfit |-> DblMax]
    ELSE IF first = last
    THEN LET depth == minDepth + first * step
             misfit == calculateMisfit(depth, obsList)
         IN  IF lessThan(misfit, DblMax)
             THEN [bestDepth |-> depth, bestMisfit |-> misfit]
             ELSE [bestDepth |-> Km(-1), bestMisfit |-> DblMax]
    ELSE LET middle == (first + last) \div 2
             earlier == gridSearchLoopLastWins(obsList, minDepth, step, first,
                                               middle)
             later == gridSearchLoopLastWins(obsList, minDepth, step,
                                             middle + 1, last)
         IN  IF lessThan(earlier.bestMisfit, later.bestMisfit)
             THEN earlier
             ELSE later

\* bestDepth and bestMisfit after the passes first..last of the loop of
\* gridSearchDepth, pass k at the trial depth minDepth + k * step, entered
\* with bestDepth = -1.0 and bestMisfit = DBL_MAX.  A pass takes over only
\* with a misfit less than the best so far, so a run of passes ends with the
\* best of its earlier half unless the later half has a lesser misfit.
RECURSIVE gridSearchLoop(_, _, _, _, _)
gridSearchLoop(obsList, minDepth, step, first, last) ==
    IF first > last THEN [bestDepth |-> Km(-1), bestMisfit |-> DblMax]
    ELSE IF first = last
    THEN LET depth == minDepth + first * step
             misfit == calculateMisfit(depth, obsList)
         IN  IF lessThan(misfit, DblMax)
             THEN [bestDepth |-> depth, bestMisfit |-> misfit]
             ELSE [bestDepth |-> Km(-1), bestMisfit |-> DblMax]
    ELSE LET middle == (first + last) \div 2
             earlier == gridSearchLoop(obsList, minDepth, step, first, middle)
             later == gridSearchLoop(obsList, minDepth, step, middle + 1, last)
         IN  IF lessThan(later.bestMisfit, earlier.bestMisfit)
             THEN later
             ELSE earlier

\* gridSearchDepth(lat, lon, observations, minDepth, maxDepth, step): the
\* loop runs while depth <= maxDepth; trials are the depths of its passes
gridSearchDepth(obsList, minDepth, maxDepth, step) ==
    LET last == IF minDepth <= maxDepth THEN (maxDepth - minDepth) \div step
                ELSE -1
    IN  [bestDepth |-> gridSearchLoop(obsList, minDepth, step, 0, last).bestDepth,
         trials |-> {minDepth + k * step : k \in 0..last}]

\* the count of all observations, valid or not
validCountOfAll(obsList) == Len(obsList)

\* the validCount loop of invertForDepth
validCountOf(obsList) ==
    Len(SelectSeq(obsList, LAMBDA obs : obs.isValid))

\* a search range around bestDepth that is not cut to the configured range
searchRangeUncut(config, bestDepth, halfWidth) ==
    [minSearch |-> bestDepth - halfWidth, maxSearch |-> bestDepth + halfWidth]

\* minSearch and maxSearch of the fine and the very fine search
searchRange(config, bestDepth, halfWidth) ==
    [minSearch |-> stdMax(config.minDepth, bestDepth - halfWidth),
     maxSearch |-> stdMin(config.maxDepth, bestDepth + halfWidth)]

\* invertForDepth(lat, lon, observations, initialDepth): the value returned
\* and the depths tried
invertForDepthOf(ttt, config, obsList) ==
    IF obsList = <<>> THEN [ret |-> Km(-1), trials |-> {}]
    ELSE IF ttt.null THEN [ret |-> Km(-1), trials |-> {}]
    ELSE IF validCountOf(obsList) < config.minPhaseCount
    THEN [ret |-> Km(-1), trials |-> {}]
    ELSE
    LET coarse == gridSearchDepth(obsList, config.minDepth, config.maxDepth, Km(10))
    IN  IF coarse.bestDepth < 0 THEN [ret |-> Km(-1), trials |-> coarse.trials]
        ELSE
        LET around == searchRange(config, coarse.bestDepth, Km(20))
            fine == gridSearchDepth(obsList, around.minSearch, around.maxSearch,
                                    Km(1))
        IN  IF fine.bestDepth < 0
            THEN [ret |-> Km(-1), trials |-> coarse.trials \cup fine.trials]
            ELSE
            LET close == searchRange(config, fine.bestDepth, Km(5))
                veryFine == gridSearchDepth(obsList, close.minSearch,
                                            close.maxSearch, HalfKm)
            IN  [ret |-> veryFine.bestDepth,
                 trials |-> coarse.trials \cup fine.trials \cup veryFine.trials]

(***************************************************************************)
(* analyze(lat, lon, depth, originTime, arrivals).  Arrivals pair up by     *)
(* station: a depth phase of the configuration with the first arrival of   *)
(* its reference phase at the same station.  Observations come in the      *)
(* order of their depth-phase arrivals.                                    *)
(***************************************************************************)
\* the phases of a configuration
ConfiguredPhases(config) == {config.phases[k] : k \in 1..Len(config.phases)}

\* the first arrival of phase at station, 0 when there is none
firstArrival(arrivals, station, phase) ==
    LET at == {j \in 1..Len(arrivals) : /\ arrivals[j].station = station
                                        /\ arrivals[j].phase = phase}
    IN  IF at = {} THEN 0 ELSE CHOOSE j \in at : \A k \in at : j <= k

\* the arrivals of depth phases that make a pair and are not skipped
pairedArrivals(config, depth, arrivals) ==
    SelectSeq([i \in 1..Len(arrivals) |-> i],
        LAMBDA i :
            /\ arrivals[i].phase \in ConfiguredPhases(config)
            /\ isDepthPhase(arrivals[i].phase)
            /\ firstArrival(arrivals, arrivals[i].station,
                            getReferencePhase(arrivals[i].phase)) # 0
            /\ config.minDistance <= arrivals[i].distance
            /\ arrivals[i].distance <= config.maxDistance
            /\ config.minDepth <= depth
            /\ depth <= config.maxDepth)

\* |x|
fabs(x) == IF x < 0 THEN -x ELSE x

\* the DepthPhaseObservation of a pair
observationOf(config, phase, station, distance, observed, theoretical) ==
    [phase |-> phase, referencePhase |-> getReferencePhase(phase),
     station |-> station, distance |-> distance,
     timeDifferenceObs |-> observed, timeDifferenceTheo |-> theoretical,
     residual |-> observed - theoretical, weight |-> config.weight,
     isValid |-> fabs(observed - theoretical) <= config.maxResidual]

\* the theoretical difference of the pair of the depth-phase arrival i, as
\* computeDepthPhaseTimeDifference gives it, and the calls of the oracle
theoreticalOf(ttt, arrivals, i, theory) ==
    LET phase == arrivals[i].phase
        station == arrivals[i].station
    IN  computeDepthPhaseTimeDifferenceOf(ttt, phase, theory[station][phase],
            theory[station][getReferencePhase(phase)])

\* the observations of the pairs
collectObservations(ttt, config, depth, arrivals, theory) ==
    LET pairs == pairedArrivals(config, depth, arrivals)
    IN  [k \in 1..Len(pairs) |->
            LET i == pairs[k]
                ref == firstArrival(arrivals, arrivals[i].station,
                                    getReferencePhase(arrivals[i].phase))
            IN  observationOf(config, arrivals[i].phase, arrivals[i].station,
                    arrivals[i].distance,
                    arrivals[i].time - arrivals[ref].time,
                    theoreticalOf(ttt, arrivals, i, theory).ret)]

\* the calls of the oracle for the pairs from pair k on
RECURSIVE collectCalls(_, _, _, _, _)
collectCalls(ttt, arrivals, pairs, k, theory) ==
    IF k > Len(pairs) THEN <<>>
    ELSE theoreticalOf(ttt, arrivals, pairs[k], theory).calls
             \o collectCalls(ttt, arrivals, pairs, k + 1, theory)

\* sums of the residuals of the valid observations from observation i on
RECURSIVE residualSums(_, _)
residualSums(obsList, i) ==
    IF i > Len(obsList) THEN [sum |-> 0, sumSquared |-> 0]
    ELSE LET rest == residualSums(obsList, i + 1)
         IN  IF ~obsList[i].isValid THEN rest
             ELSE [sum |-> rest.sum + obsList[i].residual,
                   sumSquared |-> rest.sumSquared
                                      + obsList[i].residual * obsList[i].residual]

\* DepthPhaseResult{}
DefaultDepthPhaseResult ==
    [success |-> FALSE, depth |-> 0, observationCount |-> 0,
     meanResidual |-> [num |-> 0, den |-> 1],
     rmsResidual |-> sqrtOfQuotient(0, 1), observations |-> <<>>]

\* the result with its counts and residuals populated
populated(obsList) ==
    LET count == validCountOf(obsList)
        sums == residualSums(obsList, 1)
    IN  [DefaultDepthPhaseResult EXCEPT
            !.observationCount = count,
            !.meanResidual = IF count = 0 THEN @
                             ELSE [num |-> sums.sum, den |-> count],
            !.rmsResidual = IF count = 0 THEN @
                            ELSE sqrtOfQuotient(sums.sumSquared, count),
            !.observations = obsList]

\* analyze that inverts whatever it has collected
analyzeAlwaysInverting(ttt, config, depth, arrivals, theory) ==
    LET obsList == collectObservations(ttt, config, depth, arrivals, theory)
        calls == collectCalls(ttt, arrivals,
                     pairedArrivals(config, depth, arrivals), 1, theory)
        inverted == invertForDepthOf(ttt, [config EXCEPT !.minPhaseCount = 0],
                                     obsList)
    IN  [result |-> [populated(obsList) EXCEPT
                        !.success = inverted.ret >= 0,
                        !.depth = IF inverted.ret >= 0 THEN inverted.ret ELSE @],
         calls |-> calls, trials |-> inverted.trials, inverted |-> TRUE]

\* analyze: the result, the calls of the oracle, the depths tried and
\* whether invertForDepth was run
analyzeOf(ttt, config, depth, arrivals, theory) ==
    LET obsList == collectObservations(ttt, config, depth, arrivals, theory)
        calls == collectCalls(ttt, arrivals,
                     pairedArrivals(config, depth, arrivals), 1, theory)
    IN  IF validCountOf(obsList) < config.minPhaseCount
        THEN [result |-> populated(obsList), calls |-> calls, trials |-> {},
              inverted |-> FALSE]
        ELSE LET inverted == invertForDepthOf(ttt, config, obsList)
             IN  [result |-> [populated(obsList) EXCEPT
                                 !.success = inverted.ret >= 0,
                                 !.depth = IF inverted.ret >= 0
                                           THEN inverted.ret ELSE @],
                  calls |-> calls, trials |-> inverted.trials,
                  inverted |-> TRUE]

(***************************************************************************)
(* Initial state: a freshly constructed lookup over some feature store.    *)
(***************************************************************************)
LookupInit ==
    /\ features \in FeatureStores
    /\ _config = DefaultRegionDepthConfig
    /\ _regions = <<>>
    /\ _initialized = FALSE
    /\ lastOp = "none"
    /\ initRet = FALSE
    /\ result = DefaultRegionDepthConstraints
    /\ query = NoQuery
    /\ pre = NoPre
    /\ configArg = DefaultRegionDepthConfig
    /\ sinceSetConfig = FALSE
    /\ wasInitialized = FALSE

\* a freshly constructed analyzer: no oracle
AnalyzerInit ==
    /\ _ttt = Nullptr
    /\ analyzerOp = "none"
    /\ analyzerArgs = <<>>
    /\ analyzerRet = FALSE
    /\ _depthPhaseConfig = DefaultDepthPhaseConfig
    /\ observations = <<>>
    /\ trialDepths = {}
    /\ oracleCalls = <<>>
    /\ analyzerPre = [ttt |-> _ttt, config |-> _depthPhaseConfig]

Init == LookupInit /\ AnalyzerInit

\* the analyzer on its own: the lookup is constructed over an empty store and
\* not used
InitAnalyzer ==
    /\ LookupInit
    /\ features = <<>>
    /\ AnalyzerInit

(***************************************************************************)
(* Operations of the lookup.                                               *)
(***************************************************************************)
\* setConfig without the _regions.clear()
setConfigKeepsRegions(config) ==
    /\ _config' = config
    /\ _initialized' = FALSE
    /\ lastOp' = "setConfig"
    /\ configArg' = config
    /\ sinceSetConfig' = TRUE
    /\ wasInitialized' = _initialized
    /\ initRet' = FALSE
    /\ result' = DefaultRegionDepthConstraints
    /\ query' = NoQuery
    /\ pre' = NoPre
    /\ UNCHANGED <<features, _regions, analyzerVars>>

setConfig(config) ==
    /\ _config' = config
    /\ _initialized' = FALSE
    /\ _regions' = <<>>
    /\ lastOp' = "setConfig"
    /\ configArg' = config
    /\ sinceSetConfig' = TRUE
    /\ wasInitialized' = _initialized
    /\ initRet' = FALSE
    /\ result' = DefaultRegionDepthConstraints
    /\ query' = NoQuery
    /\ pre' = NoPre
    /\ UNCHANGED <<features, analyzerVars>>

init ==
    /\ _regions' = initRegions(features, _config, _regions)
    /\ _initialized' = (_regions' # <<>>)
    /\ initRet' = _initialized'
    /\ lastOp' = "init"
    /\ pre' = [op |-> lastOp, regions |-> _regions,
               initialized |-> _initialized, initRet |-> initRet]
    /\ sinceSetConfig' = FALSE
    /\ wasInitialized' = FALSE
    /\ result' = DefaultRegionDepthConstraints
    /\ query' = NoQuery
    /\ UNCHANGED <<features, _config, configArg, analyzerVars>>

getConstraints(lat, lon) ==
    /\ result' = getConstraintsOf(features, _config, _regions, lat, lon)
    /\ query' = <<lat, lon>>
    /\ lastOp' = "getConstraints"
    /\ initRet' = FALSE
    /\ pre' = NoPre
    /\ UNCHANGED <<features, _config, _regions, _initialized,
                   configArg, sinceSetConfig, wasInitialized, analyzerVars>>

Next ==
    \/ \E config \in RegionDepthConfigs : setConfig(config)
    \/ init
    \/ \E p \in Points : getConstraints(p[1], p[2])

Spec == Init /\ [][Next]_vars

(***************************************************************************)
(* Operations of the analyzer.                                             *)
(***************************************************************************)
\* the analyzer's members as an operation finds them
Entered == [ttt |-> _ttt, config |-> _depthPhaseConfig]

\* setTravelTimeTable(ttt) that lets go of an oracle it is handed again
setTravelTimeTableReleasing(ttt) ==
    /\ _ttt' = IF _ttt = ttt THEN Nullptr ELSE ttt
    /\ analyzerRet' = ~_ttt'.null
    /\ analyzerOp' = "setTravelTimeTable"
    /\ analyzerArgs' = <<ttt>>
    /\ oracleCalls' = <<>>
    /\ analyzerPre' = Entered
    /\ UNCHANGED <<lookupVars, inversionVars>>

\* setTravelTimeTable(type, model) without _ttt = nullptr after setModel fails
setTravelTimeTableByNameUncleared(type, model) ==
    /\ _ttt' = IF ~Create(type).null /\ setModelOk(model)
               THEN Oracle(type, model)
               ELSE Create(type)
    /\ analyzerRet' = (~Create(type).null /\ setModelOk(model))
    /\ analyzerOp' = "setTravelTimeTableByName"
    /\ analyzerArgs' = <<type, model>>
    /\ oracleCalls' = <<>>
    /\ analyzerPre' = Entered
    /\ UNCHANGED <<lookupVars, inversionVars>>

\* setTravelTimeTable(TravelTimeTableInterface *ttt)
setTravelTimeTable(ttt) ==
    /\ _ttt' = ttt
    /\ analyzerRet' = ~_ttt'.null
    /\ analyzerOp' = "setTravelTimeTable"
    /\ analyzerArgs' = <<ttt>>
    /\ oracleCalls' = <<>>
    /\ analyzerPre' = Entered
    /\ UNCHANGED <<lookupVars, inversionVars>>

\* setTravelTimeTable(type, model)
setTravelTimeTableByName(type, model) ==
    /\ LET created == Create(type)
       IN  IF created.null
           THEN _ttt' = created /\ analyzerRet' = FALSE
           ELSE IF ~setModelOk(model)
                THEN _ttt' = Nullptr /\ analyzerRet' = FALSE
                ELSE _ttt' = Oracle(type, model) /\ analyzerRet' = TRUE
    /\ analyzerOp' = "setTravelTimeTableByName"
    /\ analyzerArgs' = <<type, model>>
    /\ oracleCalls' = <<>>
    /\ analyzerPre' = Entered
    /\ UNCHANGED <<lookupVars, inversionVars>>

callIsDepthPhase(phase) ==
    /\ analyzerRet' = isDepthPhase(phase)
    /\ analyzerOp' = "isDepthPhase"
    /\ analyzerArgs' = <<phase>>
    /\ oracleCalls' = <<>>
    /\ analyzerPre' = Entered
    /\ UNCHANGED <<lookupVars, _ttt, inversionVars>>

callGetReferencePhase(depthPhase) ==
    /\ analyzerRet' = getReferencePhase(depthPhase)
    /\ analyzerOp' = "getReferencePhase"
    /\ analyzerArgs' = <<depthPhase>>
    /\ oracleCalls' = <<>>
    /\ analyzerPre' = Entered
    /\ UNCHANGED <<lookupVars, _ttt, inversionVars>>

\* DepthPhaseAnalyzer::setConfig(config)
setDepthPhaseConfig(config) ==
    /\ _depthPhaseConfig' = config
    /\ analyzerOp' = "setConfig"
    /\ analyzerArgs' = <<config>>
    /\ analyzerRet' = FALSE
    /\ oracleCalls' = <<>>
    /\ analyzerPre' = Entered
    /\ UNCHANGED <<lookupVars, _ttt, observations, trialDepths>>

computeDepthPhaseTimes(phases, outcome) ==
    /\ LET computed ==
               computeDepthPhaseTimesOf(_ttt, _depthPhaseConfig, phases, outcome)
       IN  /\ analyzerRet' = [thrown |-> computed.thrown,
                              result |-> computed.result]
           /\ oracleCalls' = computed.calls
    /\ analyzerOp' = "computeDepthPhaseTimes"
    /\ analyzerPre' = Entered
    /\ analyzerArgs' = <<phases>>
    /\ UNCHANGED <<lookupVars, _ttt, inversionVars>>

computeDepthPhaseTimeDifference(depthPhase, ttDepth, ttRef) ==
    /\ LET computed ==
               computeDepthPhaseTimeDifferenceOf(_ttt, depthPhase, ttDepth, ttRef)
       IN  /\ analyzerRet' = computed.ret
           /\ oracleCalls' = computed.calls
    /\ analyzerOp' = "computeDepthPhaseTimeDifference"
    /\ analyzerPre' = Entered
    /\ analyzerArgs' = <<depthPhase>>
    /\ UNCHANGED <<lookupVars, _ttt, inversionVars>>

\* invertForDepth(lat, lon, observations, initialDepth) on the vector obsList
invertForDepth(obsList) ==
    /\ LET inverted == invertForDepthOf(_ttt, _depthPhaseConfig, obsList)
       IN  /\ analyzerRet' = inverted.ret
           /\ trialDepths' = inverted.trials
    /\ observations' = obsList
    /\ analyzerOp' = "invertForDepth"
    /\ analyzerArgs' = <<obsList>>
    /\ oracleCalls' = <<>>
    /\ analyzerPre' = Entered
    /\ UNCHANGED <<lookupVars, _ttt, _depthPhaseConfig>>

NextAnalyzer ==
    \/ \E ttt \in OracleHandles : setTravelTimeTable(ttt)
    \/ \E type \in TableTypes, model \in TableModels :
          setTravelTimeTableByName(type, model)
    \/ \E phase \in PhaseNames : callIsDepthPhase(phase)
    \/ \E phase \in PhaseNames : callGetReferencePhase(phase)
    \/ \E config \in AnalyzerConfigs : setDepthPhaseConfig(config)
    \/ \E phases \in RequestedPhases, outcome \in AllPhaseOutcomes :
          computeDepthPhaseTimes(phases, outcome)
    \/ \E depthPhase \in DifferencePhases, ttDepth, ttRef \in PhaseOutcomes :
          computeDepthPhaseTimeDifference(depthPhase, ttDepth, ttRef)
    \/ \E obsList \in HeldObservationLists : invertForDepth(obsList)

SpecAnalyzer == InitAnalyzer /\ [][NextAnalyzer]_vars

(***************************************************************************)
(* The inversion on its own: an analyzer with some oracle or none and some *)
(* configuration, and a caller holding some observation vector.            *)
(***************************************************************************)
InitInversion ==
    /\ LookupInit
    /\ features = <<>>
    /\ _ttt \in InversionOracles
    /\ analyzerOp = "none"
    /\ analyzerArgs = <<>>
    /\ analyzerRet = FALSE
    /\ _depthPhaseConfig \in InversionConfigs
    /\ observations \in ObservationLists
    /\ trialDepths = {}
    /\ oracleCalls = <<>>
    /\ analyzerPre = [ttt |-> _ttt, config |-> _depthPhaseConfig]

NextInversion == invertForDepth(observations)

SpecInversion == InitInversion /\ [][NextInversion]_vars

(***************************************************************************)
(* analyze on its own: an analyzer with some oracle or none and some       *)
(* configuration, and callers handing it arrivals.                         *)
(***************************************************************************)
InitAnalysis ==
    /\ LookupInit
    /\ features = <<>>
    /\ _ttt \in InversionOracles
    /\ analyzerOp = "none"
    /\ analyzerArgs = <<>>
    /\ analyzerRet = FALSE
    /\ _depthPhaseConfig \in AnalysisConfigs
    /\ observations = <<>>
    /\ trialDepths = {}
    /\ oracleCalls = <<>>
    /\ analyzerPre = [ttt |-> _ttt, config |-> _depthPhaseConfig]

\* analyze(lat, lon, depth, originTime, arrivals) const
analyze(depth, arrivals, theory) ==
    /\ LET analyzed == analyzeOf(_ttt, _depthPhaseConfig, depth, arrivals, theory)
       IN  /\ analyzerRet' = [result |-> analyzed.result,
                              inverted |-> analyzed.inverted]
           /\ oracleCalls' = analyzed.calls
           /\ trialDepths' = analyzed.trials
           /\ observations' = analyzed.result.observations
    /\ analyzerOp' = "analyze"
    /\ analyzerArgs' = <<depth, arrivals>>
    /\ analyzerPre' = Entered
    /\ UNCHANGED <<lookupVars, _ttt, _depthPhaseConfig>>

NextAnalysis ==
    \E depth \in SourceDepths, arrivals \in ArrivalLists, theory \in TheoryTables :
        analyze(depth, arrivals, theory)

SpecAnalysis == InitAnalysis /\ [][NextAnalysis]_vars

(***************************************************************************)
(* Vocabulary of the properties: the store, the configuration and the      *)
(* retained regions described without the lookup's own loops.              *)
(***************************************************************************)
InStore(n) == \E i \in 1..Len(features) : features[i].name = n

FirstNamed(n) ==
    CHOOSE i \in 1..Len(features) :
        /\ features[i].name = n
        /\ \A j \in 1..Len(features) : features[j].name = n => i <= j

\* positions of the retained regions whose polygon contains p
Containing(p) == {i \in 1..Len(_regions) : p \in features[_regions[i]].area}

FirstContaining(p) ==
    features[_regions[CHOOSE i \in Containing(p) : \A j \in Containing(p) : i <= j]]

\* positions of cfg.regions whose name is in the store with a polygon around p
ConfiguredAround(p) ==
    {k \in 1..Len(_config.regions) :
        /\ InStore(_config.regions[k])
        /\ p \in features[FirstNamed(_config.regions[k])].area}

FirstConfiguredAround(p) ==
    features[FirstNamed(_config.regions[
        CHOOSE k \in ConfiguredAround(p) : \A m \in ConfiguredAround(p) : k <= m])]

HasKey(f, key) == key \in DOMAIN f.attrs

HasNumber(f, key) == HasKey(f, key) /\ fromString(f.attrs[key]).ok

NumberOf(f, key) == fromString(f.attrs[key]).value

GlobalDefaults(config) ==
    [regionName |-> "", defaultDepth |-> config.globalDefaultDepth,
     maxDepth |-> config.globalMaxDepth, hasDefaultDepth |-> FALSE,
     hasMaxDepth |-> FALSE, matched |-> FALSE]

\* what one region alone gives, nothing else merged in
FromRegionAlone(f, config) ==
    [regionName |-> f.name,
     defaultDepth |-> IF HasNumber(f, "defaultDepth")
                      THEN NumberOf(f, "defaultDepth") ELSE config.globalDefaultDepth,
     maxDepth |-> IF HasNumber(f, "maxDepth")
                  THEN NumberOf(f, "maxDepth") ELSE config.globalMaxDepth,
     hasDefaultDepth |-> HasNumber(f, "defaultDepth"),
     hasMaxDepth |-> HasNumber(f, "maxDepth"),
     matched |-> TRUE]

\* cfg.regions without the names that are not in the store
RECURSIVE NamesInStore(_)
NamesInStore(names) ==
    IF names = <<>> THEN <<>>
    ELSE (IF InStore(Head(names)) THEN <<Head(names)>> ELSE <<>>)
         \o NamesInStore(Tail(names))

SwapAt(s, i, j) ==
    [k \in 1..Len(s) |-> IF k = i THEN s[j] ELSE IF k = j THEN s[i] ELSE s[k]]

(***************************************************************************)
(* C1: a query inside several retained regions is answered from the region *)
(* that comes first in cfg.regions: its name and its depth attributes, and *)
(* nothing of a later region.                                              *)
(***************************************************************************)
C1_FirstMatchWins ==
    (lastOp = "getConstraints" /\ _initialized /\ ConfiguredAround(query) # {})
        => result = FromRegionAlone(FirstConfiguredAround(query), _config)

\* regions A (maxDepth 35) and B (maxDepth 700) in that order, query in both
C1_Witness ==
    /\ lastOp = "getConstraints"
    /\ Len(_regions) = 2
    /\ Cardinality(Containing(query)) = 2
    /\ features[_regions[1]].attrs = AttrBoth
    /\ features[_regions[2]].attrs = AttrMaxOnly
    /\ result.regionName = "A"
    /\ result.maxDepth = 35

(***************************************************************************)
(* C2: with a disabled configuration, with no retained region (also before *)
(* init) or with no retained region around the point, getConstraints       *)
(* returns the configured global depths, no name and all flags false.      *)
(***************************************************************************)
C2_NoMatchGivesGlobals ==
    (/\ lastOp = "getConstraints"
     /\ (~_config.enabled \/ _regions = <<>> \/ Containing(query) = {}))
        => result = GlobalDefaults(_config)

C2_Witness ==
    /\ lastOp = "getConstraints"
    /\ _initialized
    /\ Containing(query) = {}
    /\ _config.globalDefaultDepth = 15
    /\ result.defaultDepth = 15
    /\ result.maxDepth = 600
    /\ ~result.matched

(***************************************************************************)
(* C3 as stated: on a match, each hasX flag is set iff the region's        *)
(* attribute map has that key.                                             *)
(***************************************************************************)
C3_FlagIffKeyPresent ==
    (lastOp = "getConstraints" /\ _config.enabled /\ Containing(query) # {})
        => LET f == FirstContaining(query)
           IN  /\ result.matched
               /\ result.hasDefaultDepth <=> HasKey(f, "defaultDepth")
               /\ result.hasMaxDepth <=> HasKey(f, "maxDepth")

(***************************************************************************)
(* C3 amended: on a match, each of defaultDepth and maxDepth is set on its *)
(* own: the field is overwritten and its flag set iff the map has the key  *)
(* and the value converts to a number; otherwise the field keeps the       *)
(* configured global depth.                                                *)
(***************************************************************************)
C3_FlagIffKeyConverts ==
    (lastOp = "getConstraints" /\ _config.enabled /\ Containing(query) # {})
        => LET f == FirstContaining(query)
           IN  /\ result.matched
               /\ result.hasDefaultDepth <=> HasNumber(f, "defaultDepth")
               /\ result.hasMaxDepth <=> HasNumber(f, "maxDepth")
               /\ result.defaultDepth =
                     IF HasNumber(f, "defaultDepth")
                     THEN NumberOf(f, "defaultDepth") ELSE _config.globalDefaultDepth
               /\ result.maxDepth =
                     IF HasNumber(f, "maxDepth")
                     THEN NumberOf(f, "maxDepth") ELSE _config.globalMaxDepth

\* defaultDepth present, maxDepth absent
C3_Witness ==
    /\ lastOp = "getConstraints"
    /\ Containing(query) # {}
    /\ FirstContaining(query).attrs = AttrDefOnly
    /\ result.matched
    /\ result.hasDefaultDepth
    /\ result.defaultDepth = 20
    /\ ~result.hasMaxDepth
    /\ result.maxDepth = 600

(***************************************************************************)
(* C4: an attribute of the matching region that is present but does not    *)
(* convert to a number counts as absent: the field keeps the global depth, *)
(* its flag stays false, and the region is still the match.                *)
(***************************************************************************)
C4_ParseFailureIsAbsent ==
    (lastOp = "getConstraints" /\ _config.enabled /\ Containing(query) # {})
        => LET f == FirstContaining(query)
           IN  /\ (HasKey(f, "defaultDepth") /\ ~HasNumber(f, "defaultDepth"))
                    => /\ result.defaultDepth = _config.globalDefaultDepth
                       /\ ~result.hasDefaultDepth
                       /\ result.matched
                       /\ result.regionName = f.name
               /\ (HasKey(f, "maxDepth") /\ ~HasNumber(f, "maxDepth"))
                    => /\ result.maxDepth = _config.globalMaxDepth
                       /\ ~result.hasMaxDepth
                       /\ result.matched
                       /\ result.regionName = f.name

\* the first region around the point has an unreadable defaultDepth and a
\* later region is around the point too
C4_Witness ==
    /\ lastOp = "getConstraints"
    /\ Cardinality(Containing(query)) = 2
    /\ FirstContaining(query).attrs = AttrBadDef
    /\ result.matched
    /\ result.regionName = "B"
    /\ ~result.hasDefaultDepth
    /\ result.hasMaxDepth

(***************************************************************************)
(* C5: init() returns true iff a configured name was resolved in the       *)
(* store; with cfg.enabled false or cfg.regions empty it returns false and *)
(* leaves the lookup uninitialized without regions.                        *)
(***************************************************************************)
C5_InitReturn ==
    lastOp = "init"
        => /\ initRet <=> (/\ _config.enabled
                           /\ \E k \in 1..Len(_config.regions) :
                                  InStore(_config.regions[k]))
           /\ (~_config.enabled \/ _config.regions = <<>>)
                => (~initRet /\ ~isInitialized /\ regionCount = 0)

\* a disabled configuration whose names are all in the store
C5_Witness ==
    /\ lastOp = "init"
    /\ ~_config.enabled
    /\ _config.regions # <<>>
    /\ \A k \in 1..Len(_config.regions) : InStore(_config.regions[k])
    /\ ~initRet

(***************************************************************************)
(* C6 as stated: after init() the names of the retained regions are        *)
(* cfg.regions without the names missing from the store, each region the   *)
(* first feature of the store with its name.                               *)
(***************************************************************************)
C6_RetainedAreConfiguredInStore ==
    lastOp = "init"
        => /\ regionNames = NamesInStore(_config.regions)
           /\ \A i \in 1..Len(_regions) :
                  _regions[i] = FirstNamed(features[_regions[i]].name)

(***************************************************************************)
(* C6 amended: the same after an init() under an enabled configuration; a  *)
(* disabled configuration retains nothing.                                 *)
(***************************************************************************)
C6_RetainedWhenEnabled ==
    lastOp = "init"
        => /\ _config.enabled =>
                 /\ regionNames = NamesInStore(_config.regions)
                 /\ \A i \in 1..Len(_regions) :
                        _regions[i] = FirstNamed(features[_regions[i]].name)
           /\ ~_config.enabled => _regions = <<>>

\* two names configured, the first missing from the store, the second the
\* name of two features of the store
C6_Witness ==
    /\ lastOp = "init"
    /\ _config.enabled
    /\ Len(_config.regions) = 2
    /\ ~InStore(_config.regions[1])
    /\ Len(features) = 2
    /\ features[1].name = features[2].name
    /\ _regions = <<1>>

(***************************************************************************)
(* C7: setConfig(cfg) installs cfg and forgets the regions: from then to   *)
(* the next init() the lookup is uninitialized, holds no region and        *)
(* answers every query with cfg's global depths, unmatched.                *)
(***************************************************************************)
C7_SetConfigResets ==
    sinceSetConfig
        => /\ _config = configArg
           /\ ~isInitialized
           /\ regionCount = 0
           /\ lastOp = "getConstraints" => result = GlobalDefaults(configArg)

\* the lookup was initialized, the new configuration is enabled and names a
\* region around the queried point
C7_Witness ==
    /\ sinceSetConfig
    /\ wasInitialized
    /\ lastOp = "getConstraints"
    /\ configArg.enabled
    /\ \E k \in 1..Len(configArg.regions) :
          /\ InStore(configArg.regions[k])
          /\ query \in features[FirstNamed(configArg.regions[k])].area
    /\ result.defaultDepth = 15

(***************************************************************************)
(* C8: an init() that follows an init() returns the same value and leaves  *)
(* the same regions in the same order and the same initialized flag.       *)
(***************************************************************************)
C8_InitIdempotent ==
    (lastOp = "init" /\ pre.op = "init")
        => /\ initRet = pre.initRet
           /\ _regions = pre.regions
           /\ _initialized = pre.initialized

C8_Witness ==
    /\ lastOp = "init"
    /\ pre.op = "init"
    /\ Len(_regions) = 2
    /\ _regions[1] # _regions[2]
    /\ initRet

(***************************************************************************)
(* C9: for two configured regions whose polygons do not overlap, a lookup  *)
(* initialized with their positions in cfg.regions swapped answers every   *)
(* point outside both as this one does.                                    *)
(***************************************************************************)
C9_SwapDisjointRegions ==
    (lastOp = "getConstraints" /\ _initialized)
        => \A i, j \in 1..Len(_config.regions) :
              (/\ i < j
               /\ InStore(_config.regions[i])
               /\ InStore(_config.regions[j])
               /\ LET a == features[FirstNamed(_config.regions[i])].area
                      b == features[FirstNamed(_config.regions[j])].area
                  IN  a \cap b = {} /\ query \notin a /\ query \notin b)
              => LET swapped == [_config EXCEPT !.regions = SwapAt(@, i, j)]
                 IN  result = getConstraintsOf(
                                  features, swapped,
                                  initRegions(features, swapped, <<>>),
                                  query[1], query[2])

C9_Witness ==
    /\ lastOp = "getConstraints"
    /\ _initialized
    /\ Len(_regions) = 2
    /\ features[_regions[1]].name # features[_regions[2]].name
    /\ features[_regions[1]].area \cap features[_regions[2]].area = {}
    /\ Containing(query) = {}
    /\ result = GlobalDefaults(_config)

(***************************************************************************)
(* C10: isDepthPhase(name) is true iff name is one of pP, sP, pwP, pS, sS, *)
(* pPKP, sPKP; it is false for the reference phases P, S and PKP and for   *)
(* every other string.                                                     *)
(***************************************************************************)
C10_IsDepthPhaseIffInCatalog ==
    analyzerOp = "isDepthPhase"
        => /\ analyzerRet <=>
                 analyzerArgs[1] \in {"pP", "sP", "pwP", "pS", "sS", "pPKP", "sPKP"}
           /\ analyzerArgs[1] \in {"P", "S", "PKP"} => ~analyzerRet

\* the last entry of the table
C10_Witness ==
    /\ analyzerOp = "isDepthPhase"
    /\ analyzerArgs = <<"sPKP">>
    /\ analyzerRet = TRUE

(***************************************************************************)
(* C11: getReferencePhase(name) is the second column of the catalog for a  *)
(* depth phase (P for pP, sP, pwP; S for pS, sS; PKP for pPKP, sPKP) and   *)
(* "P" for every name that is not in the catalog.                          *)
(***************************************************************************)
C11_ReferencePhaseOfCatalog ==
    analyzerOp = "getReferencePhase"
        => LET name == analyzerArgs[1]
           IN  analyzerRet =
                 IF name \in {"pS", "sS"} THEN "S"
                 ELSE IF name \in {"pPKP", "sPKP"} THEN "PKP"
                 ELSE "P"

C11_Witness ==
    /\ analyzerOp = "getReferencePhase"
    /\ analyzerArgs = <<"sPKP">>
    /\ analyzerRet = "PKP"

(***************************************************************************)
(* C12: the reference phase of any name, in the catalog or not, is never a *)
(* depth phase.                                                            *)
(***************************************************************************)
C12_ReferenceIsNoDepthPhase ==
    analyzerOp = "getReferencePhase" => ~isDepthPhase(analyzerRet)

C12_Witness ==
    /\ analyzerOp = "getReferencePhase"
    /\ analyzerArgs = <<"pS">>
    /\ analyzerRet = "S"
    /\ ~isDepthPhase(analyzerRet)

(***************************************************************************)
(* Vocabulary of the inversion's properties.                               *)
(***************************************************************************)
Inverted == analyzerOp = "invertForDepth"

ValidPositions(obsList) == {i \in 1..Len(obsList) : obsList[i].isValid}

InConfiguredRange(d) ==
    _depthPhaseConfig.minDepth <= d /\ d <= _depthPhaseConfig.maxDepth

\* an observation the inversion is to leave out of its arithmetic
LeftOut(obs) == ~obs.isValid \/ obs.weight <= 0

\* the vectors that differ from obsList in the time differences of left-out
\* observations only
LeftOutVariants(obsList) ==
    {other \in [1..Len(obsList) -> ObservationPool] :
        \A i \in 1..Len(obsList) :
            \/ other[i] = obsList[i]
            \/ /\ LeftOut(obsList[i])
               /\ other[i].isValid = obsList[i].isValid
               /\ other[i].weight = obsList[i].weight}

(***************************************************************************)
(* C13: whatever the configuration (an inverted range, a negative minDepth *)
(* included), the oracle and the observations, invertForDepth returns -1   *)
(* or a depth inside [cfg.minDepth, cfg.maxDepth], and every depth its     *)
(* three passes try lies inside that range.                                *)
(***************************************************************************)
C13_ResultInRange ==
    Inverted =>
        /\ analyzerRet = Km(-1) \/ InConfiguredRange(analyzerRet)
        /\ \A d \in trialDepths : InConfiguredRange(d)

C13_Witness ==
    /\ Inverted
    /\ _depthPhaseConfig.minDepth < 0
    /\ analyzerRet = Km(-1)
    /\ Cardinality(trialDepths) > 1
    /\ \A d \in trialDepths : InConfiguredRange(d)

(***************************************************************************)
(* C14: invertForDepth returns -1 when no oracle is configured, when the   *)
(* observation vector is empty, or when fewer than cfg.minPhaseCount       *)
(* observations have isValid set.                                          *)
(***************************************************************************)
C14_NothingToInvert ==
    (/\ Inverted
     /\ \/ _ttt.null
        \/ observations = <<>>
        \/ Cardinality(ValidPositions(observations))
              < _depthPhaseConfig.minPhaseCount)
        => analyzerRet = Km(-1)

C14_Witness ==
    /\ Inverted
    /\ ~_ttt.null
    /\ Cardinality(ValidPositions(observations)) = 2
    /\ Len(observations) = 3
    /\ _depthPhaseConfig.minPhaseCount = 3
    /\ analyzerRet = Km(-1)

(***************************************************************************)
(* C15: the value invertForDepth returns does not depend on the fields of  *)
(* an observation that has isValid = false or a weight <= 0: a vector that *)
(* differs only in the time differences of such observations gives the     *)
(* same value under the same configuration and oracle.                     *)
(***************************************************************************)
C15_LeftOutFieldsDoNotMatter ==
    Inverted =>
        \A other \in LeftOutVariants(observations) :
            invertForDepthOf(_ttt, _depthPhaseConfig, other).ret = analyzerRet

\* the sum of the values of a function over a finite domain
RECURSIVE SumOf(_)
SumOf(f) ==
    IF DOMAIN f = {} THEN 0
    ELSE LET i == CHOOSE k \in DOMAIN f : TRUE
         IN  f[i] + SumOf([k \in DOMAIN f \ {i} |-> f[k]])

WeightSum(obsList) ==
    SumOf([i \in ValidPositions(obsList) |-> obsList[i].weight])

StoredSquareSum(obsList) ==
    SumOf([i \in ValidPositions(obsList) |->
              obsList[i].weight
                * (obsList[i].timeDifferenceObs - obsList[i].timeDifferenceTheo)
                * (obsList[i].timeDifferenceObs - obsList[i].timeDifferenceTheo)])

\* the valid observations give a misfit that is a number
HasMisfit(obsList) ==
    /\ ValidPositions(obsList) # {}
    /\ WeightSum(obsList) # 0
    /\ \/ StoredSquareSum(obsList) = 0
       \/ (StoredSquareSum(obsList) > 0) = (WeightSum(obsList) > 0)

PositiveWeights(obsList) ==
    \A i \in ValidPositions(obsList) : obsList[i].weight > 0

\* the oracle of the synthetic scenario: the depth phase arrives 2 s per
\* kilometre of depth after its reference phase
oracleDifference(depth) == (2 * depth) \div Km(1)

\* the weighted sum of squared residuals against the oracle at a trial depth
OracleSquareSum(obsList, depth) ==
    SumOf([i \in ValidPositions(obsList) |->
              obsList[i].weight
                * (obsList[i].timeDifferenceObs - oracleDifference(depth))
                * (obsList[i].timeDifferenceObs - oracleDifference(depth))])

Distance(a, b) == IF a < b THEN b - a ELSE a - b

(***************************************************************************)
(* C16 as stated: with cfg.minDepth = cfg.maxDepth, an oracle and at least *)
(* cfg.minPhaseCount valid observations, invertForDepth returns exactly    *)
(* that depth.                                                             *)
(***************************************************************************)
C16_SingleDepthReturned ==
    (/\ Inverted
     /\ ~_ttt.null
     /\ _depthPhaseConfig.minDepth = _depthPhaseConfig.maxDepth
     /\ Cardinality(ValidPositions(observations))
           >= _depthPhaseConfig.minPhaseCount)
        => analyzerRet = _depthPhaseConfig.minDepth

(***************************************************************************)
(* C16, amended: with cfg.minDepth = cfg.maxDepth, an oracle, a non-empty  *)
(* observation vector and at least cfg.minPhaseCount valid observations,   *)
(* invertForDepth returns that depth when the depth is not negative and    *)
(* the valid observations give a misfit (one at least, weights that do not *)
(* sum to zero, a quotient that is not negative), and -1 in every other    *)
(* case.                                                                   *)
(***************************************************************************)
C16_SingleDepthWhenMisfit ==
    (/\ Inverted
     /\ ~_ttt.null
     /\ observations # <<>>
     /\ _depthPhaseConfig.minDepth = _depthPhaseConfig.maxDepth
     /\ Cardinality(ValidPositions(observations))
           >= _depthPhaseConfig.minPhaseCount)
        => analyzerRet = IF /\ _depthPhaseConfig.minDepth >= 0
                            /\ HasMisfit(observations)
                         THEN _depthPhaseConfig.minDepth
                         ELSE Km(-1)

C16_Witness ==
    /\ Inverted
    /\ ~_ttt.null
    /\ _depthPhaseConfig.minDepth = Km(40)
    /\ _depthPhaseConfig.maxDepth = Km(40)
    /\ Cardinality(ValidPositions(observations)) = 2
    /\ PositiveWeights(observations)
    /\ analyzerRet = Km(40)
    /\ trialDepths = {Km(40)}

(***************************************************************************)
(* C17: with one valid observation and cfg.minPhaseCount <= 1,             *)
(* invertForDepth returns the depth at which the oracle's depth-phase      *)
(* minus reference difference equals the observed one, to within 0.25 km,  *)
(* whenever that depth lies inside [cfg.minDepth, cfg.maxDepth].           *)
(***************************************************************************)
C17_SingleObservationDepth ==
    (/\ Inverted
     /\ ~_ttt.null
     /\ Cardinality(ValidPositions(observations)) = 1
     /\ PositiveWeights(observations)
     /\ _depthPhaseConfig.minPhaseCount <= 1)
        => LET obs == observations[CHOOSE i \in ValidPositions(observations) : TRUE]
           IN  \A d \in _depthPhaseConfig.minDepth.._depthPhaseConfig.maxDepth :
                   oracleDifference(d) = obs.timeDifferenceObs
                       => 2 * Distance(analyzerRet, d) <= HalfKm

(***************************************************************************)
(* C18: invertForDepth returns the trial depth with the least weighted RMS *)
(* misfit between the observed differences and the oracle's differences at *)
(* the trial depth; with the oracle of 2 s per kilometre, three valid      *)
(* observations of weight 1 observing 80, 82 and 78 s, minDepth 0,         *)
(* maxDepth 100 and minPhaseCount <= 3 it returns a depth in [39.5, 40.5]. *)
(***************************************************************************)
C18_LeastMisfitDepth ==
    (/\ Inverted
     /\ ~_ttt.null
     /\ ValidPositions(observations) # {}
     /\ PositiveWeights(observations)
     /\ Cardinality(ValidPositions(observations))
           >= _depthPhaseConfig.minPhaseCount
     /\ 0 <= _depthPhaseConfig.minDepth
     /\ _depthPhaseConfig.minDepth <= _depthPhaseConfig.maxDepth)
        => /\ analyzerRet \in trialDepths
           /\ \A d \in trialDepths :
                  OracleSquareSum(observations, analyzerRet)
                      <= OracleSquareSum(observations, d)
           /\ (/\ _depthPhaseConfig.minDepth = Km(0)
               /\ _depthPhaseConfig.maxDepth = Km(100)
               /\ Len(observations) = 3
               /\ \A i \in 1..3 : observations[i].isValid
                                      /\ observations[i].weight = 1
               /\ {observations[i].timeDifferenceObs : i \in 1..3} = {80, 82, 78})
                  => /\ Km(40) - HalfKm <= analyzerRet
                     /\ analyzerRet <= Km(40) + HalfKm

(***************************************************************************)
(* Vocabulary of the forward computations' properties.                     *)
(***************************************************************************)
SomeCallThrew == \E k \in 1..Len(oracleCalls) : oracleCalls[k].outcome.kind = "throws"

\* the phases computeDepthPhaseTimes is to keep
Wanted(phases) ==
    IF phases = <<>>
    THEN {_depthPhaseConfig.phases[k] : k \in 1..Len(_depthPhaseConfig.phases)}
    ELSE {phases[k] : k \in 1..Len(phases)}

(***************************************************************************)
(* C19: computeDepthPhaseTimeDifference returns the oracle's time of the   *)
(* depth phase minus its time of getReferencePhase(depthPhase) when both   *)
(* times are strictly positive, and -1 in every other case: no oracle, a   *)
(* time that is zero or negative, or an oracle call that throws.           *)
(***************************************************************************)
C19_TimeDifference ==
    analyzerOp = "computeDepthPhaseTimeDifference" =>
        IF _ttt.null \/ SomeCallThrew
        THEN analyzerRet = -1
        ELSE /\ Len(oracleCalls) = 2
             /\ oracleCalls[1].phase = analyzerArgs[1]
             /\ oracleCalls[2].phase = getReferencePhase(analyzerArgs[1])
             /\ analyzerRet =
                   IF /\ oracleCalls[1].outcome.time > 0
                      /\ oracleCalls[2].outcome.time > 0
                   THEN oracleCalls[1].outcome.time - oracleCalls[2].outcome.time
                   ELSE -1

C19_Witness ==
    /\ analyzerOp = "computeDepthPhaseTimeDifference"
    /\ analyzerArgs = <<"sS">>
    /\ Len(oracleCalls) = 2
    /\ oracleCalls[2].phase = "S"
    /\ oracleCalls[1].outcome = Time(12)
    /\ oracleCalls[2].outcome = Time(5)
    /\ analyzerRet = 7

(***************************************************************************)
(* C20: computeDepthPhaseTimes returns exactly the entries of the oracle's *)
(* all-phase list whose phase is in phases (in cfg.phases when phases is   *)
(* empty), in the oracle's order; it returns an empty list when no oracle  *)
(* is configured or the oracle returns no list; and it frees the oracle's  *)
(* list on every path on which the oracle returned one.                    *)
(***************************************************************************)
C20_FilteredTimes ==
    analyzerOp = "computeDepthPhaseTimes" =>
        /\ _ttt.null => analyzerRet.result = <<>> /\ ~analyzerRet.thrown
        /\ \A k \in 1..Len(oracleCalls) :
              /\ oracleCalls[k].outcome.kind = "null"
                    => analyzerRet.result = <<>> /\ ~analyzerRet.thrown
              /\ oracleCalls[k].outcome.kind = "list"
                    => /\ ~analyzerRet.thrown
                       /\ oracleCalls[k].deleted
                       /\ analyzerRet.result =
                             SelectSeq(oracleCalls[k].outcome.list,
                                 LAMBDA tt : tt.phase \in Wanted(analyzerArgs[1]))

C20_Witness ==
    /\ analyzerOp = "computeDepthPhaseTimes"
    /\ analyzerArgs = <<<<"sS", "pP">>>>
    /\ Len(oracleCalls) = 1
    /\ oracleCalls[1].deleted
    /\ analyzerRet.result =
          <<TravelTime("pP", 7), TravelTime("pP", 8), TravelTime("sS", 12)>>

(***************************************************************************)
(* Vocabulary of the analyzer's states.                                    *)
(***************************************************************************)
ComputeOps ==
    {"computeDepthPhaseTimes", "computeDepthPhaseTimeDifference", "invertForDepth"}

SetTableOps == {"setTravelTimeTable", "setTravelTimeTableByName"}

\* the analyzer was Uninitialized when its last operation was entered
EnteredUninitialized == analyzerPre.ttt.null

(***************************************************************************)
(* C21: a compute operation entered without an oracle fails without side   *)
(* effects: computeDepthPhaseTimes returns an empty list,                  *)
(* computeDepthPhaseTimeDifference and invertForDepth return -1, the       *)
(* oracle is not called, and oracle and configuration are as before; and   *)
(* an analyzer without an oracle gets one only by a setTravelTimeTable     *)
(* that returns true.                                                      *)
(***************************************************************************)
C21_UninitializedFails ==
    /\ (analyzerOp \in ComputeOps /\ EnteredUninitialized)
          => /\ oracleCalls = <<>>
             /\ _ttt = analyzerPre.ttt
             /\ _depthPhaseConfig = analyzerPre.config
             /\ analyzerOp = "computeDepthPhaseTimes"
                   => analyzerRet = [thrown |-> FALSE, result |-> <<>>]
             /\ analyzerOp = "computeDepthPhaseTimeDifference" => analyzerRet = -1
             /\ analyzerOp = "invertForDepth" => analyzerRet = Km(-1)
    /\ (EnteredUninitialized /\ ~_ttt.null)
          => analyzerOp \in SetTableOps /\ analyzerRet = TRUE

C21_Witness ==
    /\ analyzerOp = "invertForDepth"
    /\ EnteredUninitialized
    /\ Len(observations) = 3
    /\ _depthPhaseConfig # DefaultDepthPhaseConfig
    /\ analyzerRet = Km(-1)

(***************************************************************************)
(* C22: setTravelTimeTable(type, model) returns true iff the registry      *)
(* creates an oracle for type and that oracle accepts the model; when      *)
(* either step fails it returns false and the analyzer holds no oracle,    *)
(* whether or not it held one before.                                      *)
(***************************************************************************)
C22_SetByName ==
    analyzerOp = "setTravelTimeTableByName" =>
        /\ analyzerRet = (/\ analyzerArgs[1] \in RegisteredTypes
                          /\ analyzerArgs[2] \in StandardModels)
        /\ analyzerRet = ~_ttt.null
        /\ analyzerRet => _ttt = Oracle(analyzerArgs[1], analyzerArgs[2])

C22_Witness ==
    /\ analyzerOp = "setTravelTimeTableByName"
    /\ ~analyzerPre.ttt.null
    /\ analyzerArgs[1] \in RegisteredTypes
    /\ analyzerArgs[2] \notin StandardModels
    /\ analyzerRet = FALSE
    /\ _ttt.null

(***************************************************************************)
(* C23: setTravelTimeTable(t) called again with the same oracle t returns  *)
(* what the first call returned and leaves the analyzer as the first call  *)
(* left it: holding t, with the same configuration.                        *)
(***************************************************************************)
C23_SetTableIdempotent ==
    [][(/\ analyzerOp = "setTravelTimeTable"
        /\ analyzerOp' = "setTravelTimeTable"
        /\ analyzerArgs' = analyzerArgs)
          => /\ analyzerRet' = analyzerRet
             /\ _ttt' = _ttt
             /\ _ttt' = analyzerArgs'[1]
             /\ _depthPhaseConfig' = _depthPhaseConfig]_vars

C23_Witness ==
    /\ analyzerOp = "setTravelTimeTable"
    /\ analyzerPre.ttt = analyzerArgs[1]
    /\ analyzerPre.config # DefaultDepthPhaseConfig
    /\ _depthPhaseConfig = analyzerPre.config
    /\ _ttt = analyzerArgs[1]
    /\ ~_ttt.null
    /\ analyzerRet = TRUE

(***************************************************************************)
(* C24: no exception leaves the analyzer: when a call of the oracle made   *)
(* by computeDepthPhaseTimes or computeDepthPhaseTimeDifference throws,    *)
(* the operation returns its sentinel, the empty list or -1.               *)
(***************************************************************************)
C24_NoExceptionCrosses ==
    SomeCallThrew =>
        /\ analyzerOp = "computeDepthPhaseTimes"
              => analyzerRet = [thrown |-> FALSE, result |-> <<>>]
        /\ analyzerOp = "computeDepthPhaseTimeDifference" => analyzerRet = -1

(***************************************************************************)
(* Vocabulary of the properties of analyze.                                *)
(***************************************************************************)
Analyzed == analyzerOp = "analyze"

ValidOnly(obsList) == SelectSeq(obsList, LAMBDA obs : obs.isValid)

ResidualSum(obsList) ==
    SumOf([i \in ValidPositions(obsList) |-> obsList[i].residual])

ResidualSquareSum(obsList) ==
    SumOf([i \in ValidPositions(obsList) |->
              obsList[i].residual * obsList[i].residual])

\* the observation comes from a depth-phase arrival and an arrival of its
\* reference phase at the same station
FromPairOf(obs, arrivals) ==
    \E i, j \in 1..Len(arrivals) :
        /\ arrivals[i].phase = obs.phase
        /\ arrivals[j].phase = getReferencePhase(obs.phase)
        /\ arrivals[i].station = obs.station
        /\ arrivals[j].station = obs.station
        /\ obs.timeDifferenceObs = arrivals[i].time - arrivals[j].time

(***************************************************************************)
(* C25: when analyze collects fewer valid observations than                *)
(* cfg.minPhaseCount it returns a result, not an error: success is false,  *)
(* depth is left at 0, observationCount is the number of valid             *)
(* observations, the mean and the RMS residual are those of the valid      *)
(* observations, and invertForDepth is not run.                            *)
(***************************************************************************)
C25_TooFewObservations ==
    (/\ Analyzed
     /\ Cardinality(ValidPositions(observations))
            < _depthPhaseConfig.minPhaseCount)
        => LET returned == analyzerRet.result
               count == Cardinality(ValidPositions(observations))
           IN  /\ returned.success = FALSE
               /\ returned.depth = 0
               /\ returned.observationCount = count
               /\ returned.observations = observations
               /\ count > 0 =>
                      /\ returned.meanResidual.num = ResidualSum(observations)
                      /\ returned.meanResidual.den = count
                      /\ returned.rmsResidual
                            = sqrtOfQuotient(ResidualSquareSum(observations), count)
               /\ ~analyzerRet.inverted
               /\ trialDepths = {}

C25_Witness ==
    /\ Analyzed
    /\ ~_ttt.null
    /\ _depthPhaseConfig.minPhaseCount = 3
    /\ Cardinality(ValidPositions(observations)) = 2
    /\ analyzerRet.result.success = FALSE
    /\ analyzerRet.result.observationCount = 2
    /\ analyzerRet.result.depth = 0
    /\ analyzerRet.result.meanResidual.num = 0
    /\ analyzerRet.result.rmsResidual = sqrtOfQuotient(2, 2)

(***************************************************************************)
(* C26: every observation analyze constructs comes from a depth-phase      *)
(* arrival and a reference arrival of the same station, has residual =     *)
(* observed difference - theoretical difference and weight = cfg.weight,   *)
(* and is valid iff |residual| <= cfg.maxResidual; an observation that is  *)
(* not valid counts neither in observationCount nor in the misfit.         *)
(***************************************************************************)
C26_ObservationFields ==
    Analyzed =>
        /\ \A i \in 1..Len(observations) :
              LET obs == observations[i]
              IN  /\ FromPairOf(obs, analyzerArgs[2])
                  /\ obs.residual = obs.timeDifferenceObs - obs.timeDifferenceTheo
                  /\ obs.weight = _depthPhaseConfig.weight
                  /\ obs.isValid
                        = (/\ obs.residual <= _depthPhaseConfig.maxResidual
                           /\ -obs.residual <= _depthPhaseConfig.maxResidual)
        /\ analyzerRet.result.observationCount
              = Len(ValidOnly(observations))
        /\ calculateMisfit(Km(0), observations)
              = calculateMisfit(Km(0), ValidOnly(observations))

C26_Witness ==
    /\ Analyzed
    /\ _depthPhaseConfig.maxResidual = 3
    /\ Len(observations) = 3
    /\ observations[1].timeDifferenceObs = 50
    /\ observations[1].timeDifferenceTheo = 60
    /\ ~observations[1].isValid
    /\ observations[2].isValid
    /\ analyzerRet.result.observationCount = 2
    /\ calculateMisfit(Km(0), observations) = sqrtOfQuotient(3, 6)

(***************************************************************************)
(* Vocabulary of the properties of one pass of the grid search.            *)
(***************************************************************************)
\* the misfit at a trial depth is below the value that stands for no data
BelowNoData(d, obsList) == lessThan(calculateMisfit(d, obsList), DblMax)

\* best is what a pass over trials keeps: -1 when no trial depth has a
\* misfit below the value for no data; otherwise a trial depth with such a
\* misfit, strictly smaller than that of every earlier trial depth that
\* has one, and not greater than that of any later trial depth
FirstLeast(best, trials, obsList) ==
    IF best = Km(-1) /\ best \notin trials
    THEN \A d \in trials : ~BelowNoData(d, obsList)
    ELSE /\ best \in trials
         /\ BelowNoData(best, obsList)
         /\ LET least == calculateMisfit(best, obsList)
            IN  \A e \in trials :
                   LET misfit == calculateMisfit(e, obsList)
                   IN  /\ e < best => \/ lessThan(least, misfit)
                                      \/ ~BelowNoData(e, obsList)
                       /\ e > best => ~lessThan(misfit, least)

\* the inversion got as far as its grid search
Searched ==
    /\ Inverted
    /\ ~_ttt.null
    /\ observations # <<>>
    /\ validCountOf(observations) >= _depthPhaseConfig.minPhaseCount

(***************************************************************************)
(* C27: each pass of the grid search returns the first trial depth in scan *)
(* order among those of least misfit, a later depth taking over only with  *)
(* a strictly smaller misfit, and returns -1 when no trial depth has a     *)
(* misfit below the value for no data; the inversion returns -1 after such *)
(* a pass and the depth of its third pass otherwise.                       *)
(***************************************************************************)
C27_FirstOfLeastMisfit ==
    Searched =>
        LET config == _depthPhaseConfig
            coarse == gridSearchDepth(observations, config.minDepth,
                                      config.maxDepth, Km(10))
            around == searchRange(config, coarse.bestDepth, Km(20))
            fine == gridSearchDepth(observations, around.minSearch,
                                    around.maxSearch, Km(1))
            close == searchRange(config, fine.bestDepth, Km(5))
            veryFine == gridSearchDepth(observations, close.minSearch,
                                        close.maxSearch, HalfKm)
        IN  /\ FirstLeast(coarse.bestDepth, coarse.trials, observations)
            /\ IF coarse.bestDepth < 0 THEN analyzerRet = Km(-1)
               ELSE /\ FirstLeast(fine.bestDepth, fine.trials, observations)
                    /\ IF fine.bestDepth < 0 THEN analyzerRet = Km(-1)
                       ELSE /\ FirstLeast(veryFine.bestDepth, veryFine.trials,
                                          observations)
                            /\ analyzerRet = veryFine.bestDepth

C27_Witness ==
    /\ Searched
    /\ Cardinality(trialDepths) > 3
    /\ \A d \in trialDepths :
          calculateMisfit(d, observations) = sqrtOfQuotient(8, 3)
    /\ analyzerRet = _depthPhaseConfig.minDepth
    /\ analyzerRet < _depthPhaseConfig.maxDepth

C29_InitializedIffRegions ==
    isInitialized <=> regionCount > 0

\* a query after an init() that retained two regions
C29_Witness ==
    /\ lastOp = "getConstraints"
    /\ isInitialized
    /\ regionCount = 2
    /\ _regions[1] # _regions[2]

(***************************************************************************)
(* C30: after any sequence of setConfig and init, the name of every        *)
(* retained region is one of the current configuration's region names, and *)
(* no region is retained while the current configuration is disabled.      *)
(***************************************************************************)
C30_RetainedAreOfCurrentConfig ==
    /\ \A i \in 1..regionCount :
          \E k \in 1..Len(_config.regions) : regionNames[i] = _config.regions[k]
    /\ ~_config.enabled => regionCount = 0

\* an initialized lookup is handed a disabled configuration that names a
\* region of the store, and init() is called again
C30_Witness ==
    /\ lastOp = "init"
    /\ pre.op = "setConfig"
    /\ ~_config.enabled
    /\ \E k \in 1..Len(_config.regions) : InStore(_config.regions[k])
    /\ regionCount = 0

====
